---- MODULE Spec2Model ----
(***************************************************************************)
(* State-machine model of src/src/components/ParallaxGallery.tsx: the      *)
(* ParallaxGallery component (scroll tracker, background selector,         *)
(* simulated pagination, throttled front trimming) and the throttle        *)
(* utility it uses.                                                        *)
(*                                                                         *)
(* One action is one callback of the component run to completion on the    *)
(* single UI thread, together with the re-render it causes and the effects *)
(* whose dependencies changed in that re-render.  Closures that outlive a  *)
(* render (the observer callback, the throttled handler, pending timer     *)
(* callbacks) carry the values they captured.  A state setter called by a  *)
(* callback is applied when the callback runs; the callbacks of the code   *)
(* test no mounted flag, so this also holds for a timer callback that runs *)
(* after the unmount.                                                      *)
(*                                                                         *)
(* Arithmetic: scrollY / scrollHeight * N is modelled by the exact         *)
(* quotient (floor of y*N/H); offsets and heights are integers.            *)
(***************************************************************************)
EXTENDS Integers, Sequences, FiniteSets, TLC

VARIABLES
  phase,             \* "init" (constructed), "mounted", "unmounted"
  backgroundImages,  \* the module-level background list (ids)
  visibleItems,      \* useState<GalleryItem[]>
  currentBgIndex,    \* useState(0)
  isLoading,         \* useState(false)
  scrollY,           \* useState(0)
  winScrollY,        \* window.scrollY
  innerHeight,       \* window.innerHeight
  docHeight,         \* document.documentElement.scrollHeight
  now,               \* Date.now()
  observer,          \* observerRef.current: connected?, isLoading captured by its callback
  scrollListener,    \* handleScroll is registered on window
  thr,               \* the subscribed throttledOptimization closure
  timers,            \* pending setTimeout callbacks, in scheduling order
  trimCall,          \* history: the handleMemoryOptimization call made by the last step
  sinceRun,          \* history: time since the latest handleMemoryOptimization call, capped at ThrottleWait
  retriggered,       \* history: the sentinel triggered again during the pending load
  scrolls,           \* number of scroll events delivered so far
  loadLen            \* history: list length when the latest load was triggered / when its timer fired

vars == <<phase, backgroundImages, visibleItems, currentBgIndex, isLoading, scrollY,
          winScrollY, innerHeight, docHeight, now, observer, scrollListener, thr,
          timers, trimCall, sinceRun, retriggered, scrolls, loadLen>>

viewState == <<visibleItems, isLoading, currentBgIndex, scrollY>>

-----------------------------------------------------------------------------
(* Program constants *)

itemsPerLoad == 3
LoadDelay == 500
ThrottleWait == 1000
itemHeight == 600
TrimThreshold == 20
InitialCount == 3

galleryItems ==
  << [id |-> "1", title |-> "Tropical Paradise"],
     [id |-> "2", title |-> "Alpine Majesty"],
     [id |-> "3", title |-> "Wildflower Dreams"] >>

BackgroundList == << "bg1", "bg2", "bg3" >>

(* Bounds of the model *)

MaxItems == 25       \* no load is started once the list holds more than MaxItems - 3
MaxTime == 5000      \* the clock stops advancing here
TimeStep == 500      \* granularity of the clock
StartTime == 1000    \* Date.now() at construction (any value >= ThrottleWait)
MaxScrolls == 4      \* number of scroll events delivered in one run

ScrollPositions == {0, 2000, 2900, 4000, 15000}
LiveScrollPositions == {4000}
ViewportHeights == {800}
DocHeights == {4800}

\* inputs of the background selector, for SpecBg
MaxBackgrounds == 4
MaxOffset == 9
MaxHeight == 7
BgPool == << "bg1", "bg2", "bg3", "bg4", "bg5" >>
BgScrollPositions == (0 - 2)..MaxOffset
BgViewportHeights == {0, 2}
BgDocHeights == 0..MaxHeight

-----------------------------------------------------------------------------
(* Helpers *)

Max(a, b) == IF a >= b THEN a ELSE b
Min(a, b) == IF a <= b THEN a ELSE b

\* Array.prototype.slice(k) for k >= 0
Slice(s, k) == SubSeq(s, k + 1, Len(s))

\* Array.prototype.slice(0, n)
Take(s, n) == SubSeq(s, 1, Min(n, Len(s)))

RemoveAt(s, i) == [j \in 1..(Len(s) - 1) |-> IF j < i THEN s[j] ELSE s[j + 1]]

NoCall == [ran |-> FALSE, len |-> 0, args |-> 0]

NoLoad == [atTrigger |-> 0, atFire |-> 0 - 1]

-----------------------------------------------------------------------------
(* Background selector: the effect of lines 87-100 *)

\* Math.floor(scrollY / scrollHeight * N)
NewBgIndex(y, H, N) == (y * N) \div H

\* variant: the backgrounds cycle instead of stopping at the last one
ClampedIndexWrapping(y, H, N) == NewBgIndex(y, H, N) % N

\* variant: the upper clamp (Math.min) is missing
ClampedIndexNoUpper(y, H, N) == Max(0, NewBgIndex(y, H, N))

\* Math.max(0, Math.min(newBgIndex, N - 1))
ClampedIndex(y, H, N) == Max(0, Min(NewBgIndex(y, H, N), N - 1))

\* variant: the unclamped index is compared with the current one
BgUpdatesComparingRaw(cur, y, H, N) ==
  /\ N # 0
  /\ H > 0
  /\ NewBgIndex(y, H, N) # cur
  /\ (ClampedIndex(y, H, N) + 1) \in 1..N

\* one run of the effect calls setCurrentBgIndex: the returns of lines 88 and 91
\* are not taken and the condition of line 97 holds
BgUpdates(cur, y, H, N) ==
  /\ N # 0
  /\ H > 0
  /\ ClampedIndex(y, H, N) # cur
  /\ (ClampedIndex(y, H, N) + 1) \in 1..N

\* variant: neither clamp nor existence check before the update
BgEffectOnceUnclamped(cur, y, H, N) ==
  IF N = 0 THEN cur
  ELSE IF H <= 0 THEN cur
  ELSE NewBgIndex(y, H, N)

\* variant: a document that cannot scroll resets the background to the first
BgEffectOnceResetting(cur, y, H, N) ==
  IF N = 0 THEN cur
  ELSE IF H <= 0 THEN 0
  ELSE IF ClampedIndex(y, H, N) # cur /\ (ClampedIndex(y, H, N) + 1) \in 1..N
       THEN ClampedIndex(y, H, N)
       ELSE cur

\* one run of the effect: the value of currentBgIndex after it
BgEffectOnce(cur, y, H, N) ==
  IF N = 0 THEN cur
  ELSE IF H <= 0 THEN cur
  ELSE IF BgUpdates(cur, y, H, N)
       THEN ClampedIndex(y, H, N)
       ELSE cur

\* the effect depends on currentBgIndex, so it runs again after it changed it
BgEffect(cur, y, H, N) ==
  LET c1 == BgEffectOnce(cur, y, H, N)
  IN  IF c1 # cur THEN BgEffectOnce(c1, y, H, N) ELSE c1

-----------------------------------------------------------------------------
(* Pagination: loadMoreItems, lines 103-128 *)

\* variant: the guard of line 104 is missing
AlreadyLoadingNever(captured) == FALSE

\* if (isLoading) return;  with the isLoading of the render that made the callback
AlreadyLoading(captured) == captured

\* variant: the id suffix is the position in the batch, not in the list
NewItemBatchSuffix(currentLength, i) ==
  LET sourceIndex == (currentLength + i) % Len(galleryItems)
  IN  [galleryItems[sourceIndex + 1] EXCEPT
         !.id = galleryItems[sourceIndex + 1].id \o "-" \o ToString(i)]

\* the i-th new item of a batch appended to a list of length currentLength
NewItem(currentLength, i) ==
  LET sourceIndex == (currentLength + i) % Len(galleryItems)
  IN  [galleryItems[sourceIndex + 1] EXCEPT
         !.id = galleryItems[sourceIndex + 1].id \o "-" \o ToString(currentLength + i)]

\* variant: the updater returns the list it was given
AppendBatchNothing(prev) == prev

\* the updater passed to setVisibleItems by the timer callback
AppendBatch(prev) ==
  prev \o [i \in 1..itemsPerLoad |-> NewItem(Len(prev), i - 1)]

LoadTimer == [kind |-> "load", due |-> now + LoadDelay, len |-> 0, args |-> 0, cur |-> FALSE]

-----------------------------------------------------------------------------
(* Trimming: handleMemoryOptimization, lines 154-166 *)

\* variant: one viewport of margin instead of two
ItemsToKeepOneViewport(scrollTop, viewportHeight) ==
  (scrollTop - viewportHeight) \div itemHeight

\* Math.floor(keepAfterScroll / itemHeight), keepAfterScroll = scrollTop - viewportHeight * 2
ItemsToKeep(scrollTop, viewportHeight) ==
  (scrollTop - viewportHeight * 2) \div itemHeight

\* variant: the entries are dropped from the end of the list
HandleMemoryOptimizationKeepHead(len, prev, scrollTop, viewportHeight) ==
  IF len > TrimThreshold
    THEN Take(prev, Max(0, Len(prev) - Max(0, ItemsToKeep(scrollTop, viewportHeight))))
    ELSE prev

\* the list after a call of the handler whose closure captured a list of length len
HandleMemoryOptimization(len, prev, scrollTop, viewportHeight) ==
  IF len > TrimThreshold
    THEN Slice(prev, Max(0, ItemsToKeep(scrollTop, viewportHeight)))
    ELSE prev

-----------------------------------------------------------------------------
(* throttle, lines 288-311 *)

Remaining(previous) == ThrottleWait - (now - previous)

LeadingEdge(previous) == Remaining(previous) <= 0 \/ Remaining(previous) > ThrottleWait

\* `timeout` of the subscribed closure: its trailing timer is pending
TimeoutPending(ts) == \E i \in DOMAIN ts : ts[i].kind = "trim" /\ ts[i].cur

\* clearTimeout(timeout) of the subscribed closure
ClearTimeout(ts) == SelectSeq(ts, LAMBDA t : ~(t.kind = "trim" /\ t.cur))

TrailingTimer(len, args, previous) ==
  [kind |-> "trim", due |-> now + Remaining(previous), len |-> len, args |-> args, cur |-> TRUE]

\* the effect cleanup of line 171 removes the listener only: a pending trailing
\* timer of the closure stays scheduled, no longer reachable from the component
Orphan(ts) == [i \in DOMAIN ts |-> IF ts[i].kind = "trim" THEN [ts[i] EXCEPT !.cur = FALSE] ELSE ts[i]]

\* throttle(handleMemoryOptimization, 1000): timeout = null, previous = 0
NewThrottle(len) == [subscribed |-> TRUE, len |-> len, previous |-> 0]

-----------------------------------------------------------------------------
(* Timers of the host: a timer runs once its delay has elapsed, earliest first *)

IsNextTimer(i) ==
  /\ i \in DOMAIN timers
  /\ timers[i].due <= now
  /\ \A j \in DOMAIN timers :
       \/ timers[i].due < timers[j].due
       \/ (timers[i].due = timers[j].due /\ i <= j)

-----------------------------------------------------------------------------
(* Re-render after a callback: the effects whose dependencies changed *)

\* lines 131-150 (deps [loadMoreItems], i.e. isLoading) and 153-172 (deps
\* [visibleItems.length]); items2, loading2 are the new state, thr2 and ts2 the
\* throttle closure and the timers as the callback left them
Render(items2, loading2, thr2, ts2) ==
  IF phase = "mounted"
    THEN /\ observer' = [connected |-> TRUE, isLoading |-> loading2]
         /\ IF Len(items2) # thr.len
              THEN thr' = NewThrottle(Len(items2)) /\ timers' = Orphan(ts2)
              ELSE thr' = thr2 /\ timers' = ts2
    ELSE /\ observer' = observer
         /\ thr' = thr2
         /\ timers' = ts2

-----------------------------------------------------------------------------
(* Initial state: the component function has run useState/useRef, nothing mounted *)

Init ==
  /\ phase = "init"
  /\ backgroundImages = BackgroundList
  /\ visibleItems = << >>
  /\ currentBgIndex = 0
  /\ isLoading = FALSE
  /\ scrollY = 0
  /\ winScrollY = 0
  /\ innerHeight \in ViewportHeights
  /\ docHeight \in DocHeights
  /\ now = StartTime
  /\ observer = [connected |-> FALSE, isLoading |-> FALSE]
  /\ scrollListener = FALSE
  /\ thr = [subscribed |-> FALSE, len |-> 0, previous |-> 0]
  /\ timers = << >>
  /\ trimCall = NoCall
  /\ sinceRun = ThrottleWait
  /\ retriggered = FALSE
  /\ scrolls = 0
  /\ loadLen = NoLoad

-----------------------------------------------------------------------------
(* Actions *)

\* first commit: the mount effects of lines 72-74, 77-84, 87-100, 131-150, 153-172
\* and the re-render caused by setVisibleItems(galleryItems.slice(0, 3))
Mount ==
  /\ phase = "init"
  /\ phase' = "mounted"
  /\ visibleItems' = Take(galleryItems, InitialCount)
  /\ scrollListener' = TRUE
  /\ currentBgIndex' = BgEffect(currentBgIndex, scrollY, docHeight - innerHeight,
                                Len(backgroundImages))
  /\ observer' = [connected |-> TRUE, isLoading |-> isLoading]
  /\ thr' = NewThrottle(Len(visibleItems'))
  /\ trimCall' = NoCall
  /\ UNCHANGED <<backgroundImages, isLoading, scrollY, winScrollY, innerHeight,
                 docHeight, now, timers, sinceRun, retriggered, scrolls, loadLen>>

\* a scroll event at offset y: handleScroll (line 79), then throttledOptimization
\* (lines 292-309) with the event as argument
Scroll(y) ==
  /\ phase = "mounted"
  /\ scrollListener /\ thr.subscribed
  /\ scrolls < MaxScrolls
  /\ scrolls' = scrolls + 1
  /\ winScrollY' = y
  /\ scrollY' = y
  /\ currentBgIndex' =
       IF y # scrollY
         THEN BgEffect(currentBgIndex, y, docHeight - innerHeight, Len(backgroundImages))
         ELSE currentBgIndex
  /\ IF LeadingEdge(thr.previous)
       THEN /\ visibleItems' = HandleMemoryOptimization(thr.len, visibleItems, y, innerHeight)
            /\ trimCall' = [ran |-> TRUE, len |-> thr.len, args |-> y]
            /\ sinceRun' = 0
            /\ Render(visibleItems', isLoading, [thr EXCEPT !.previous = now],
                      ClearTimeout(timers))
       ELSE /\ visibleItems' = visibleItems
            /\ trimCall' = NoCall
            /\ sinceRun' = sinceRun
            /\ IF ~TimeoutPending(timers)
                 THEN Render(visibleItems, isLoading, thr,
                             Append(timers, TrailingTimer(thr.len, y, thr.previous)))
                 ELSE Render(visibleItems, isLoading, thr, timers)
  /\ UNCHANGED <<phase, backgroundImages, isLoading, innerHeight, docHeight, now,
                 scrollListener, retriggered, loadLen>>

\* the host reports a new viewport height / document height (read at lines 90, 156)
Layout(vh, dh) ==
  /\ innerHeight' = vh
  /\ docHeight' = dh
  /\ trimCall' = NoCall
  /\ UNCHANGED <<phase, backgroundImages, visibleItems, currentBgIndex, isLoading, scrollY,
                 winScrollY, now, observer, scrollListener, thr, timers, sinceRun,
                 retriggered, scrolls, loadLen>>

\* the observer reports the sentinel intersecting (lines 135-139): loadMoreItems()
\* of the render that created the observer (lines 103-128)
SentinelTrigger ==
  /\ phase = "mounted"
  /\ observer.connected
  /\ trimCall' = NoCall
  /\ IF AlreadyLoading(observer.isLoading)
       THEN /\ retriggered' = TRUE
            /\ UNCHANGED <<isLoading, observer, thr, timers, loadLen>>
       ELSE /\ Len(visibleItems) + itemsPerLoad <= MaxItems
            /\ isLoading' = TRUE
            /\ retriggered' = FALSE
            /\ loadLen' = [atTrigger |-> Len(visibleItems), atFire |-> 0 - 1]
            /\ Render(visibleItems, TRUE, thr, Append(timers, LoadTimer))
  /\ UNCHANGED <<phase, backgroundImages, visibleItems, currentBgIndex, scrollY, winScrollY,
                 innerHeight, docHeight, now, scrollListener, sinceRun, scrolls>>

\* variant: the batch is built from the list length seen when the load was
\* triggered (visibleItems.length of the render) instead of prev.length
LoadTimerFireStaleLength(i) ==
  /\ IsNextTimer(i)
  /\ timers[i].kind = "load"
  /\ visibleItems' =
       visibleItems \o [j \in 1..itemsPerLoad |-> NewItem(loadLen.atTrigger, j - 1)]
  /\ isLoading' = FALSE
  /\ retriggered' = FALSE
  /\ loadLen' = [loadLen EXCEPT !.atFire = Len(visibleItems)]
  /\ trimCall' = NoCall
  /\ Render(visibleItems', FALSE, thr, RemoveAt(timers, i))
  /\ UNCHANGED <<phase, backgroundImages, currentBgIndex, scrollY, winScrollY, innerHeight,
                 docHeight, now, scrollListener, sinceRun, scrolls>>

\* variant: setIsLoading(false) of line 126 is missing
LoadTimerFireKeepsLoading(i) ==
  /\ IsNextTimer(i)
  /\ timers[i].kind = "load"
  /\ visibleItems' = AppendBatch(visibleItems)
  /\ isLoading' = isLoading
  /\ retriggered' = FALSE
  /\ loadLen' = [loadLen EXCEPT !.atFire = Len(visibleItems)]
  /\ trimCall' = NoCall
  /\ Render(visibleItems', isLoading, thr, RemoveAt(timers, i))
  /\ UNCHANGED <<phase, backgroundImages, currentBgIndex, scrollY, winScrollY, innerHeight,
                 docHeight, now, scrollListener, sinceRun, scrolls>>

\* the pagination timer fires (lines 109-127); nothing cancels it on unmount
LoadTimerFire(i) ==
  /\ IsNextTimer(i)
  /\ timers[i].kind = "load"
  /\ visibleItems' = AppendBatch(visibleItems)
  /\ isLoading' = FALSE
  /\ retriggered' = FALSE
  /\ loadLen' = [loadLen EXCEPT !.atFire = Len(visibleItems)]
  /\ trimCall' = NoCall
  /\ Render(visibleItems', FALSE, thr, RemoveAt(timers, i))
  /\ UNCHANGED <<phase, backgroundImages, currentBgIndex, scrollY, winScrollY, innerHeight,
                 docHeight, now, scrollListener, sinceRun, scrolls>>

\* a trailing timer of some throttle closure fires (lines 304-308); the closure
\* calls the handleMemoryOptimization of the render that created it
TrimTimerFire(i) ==
  /\ IsNextTimer(i)
  /\ timers[i].kind = "trim"
  /\ visibleItems' = HandleMemoryOptimization(timers[i].len, visibleItems, winScrollY,
                                              innerHeight)
  /\ trimCall' = [ran |-> TRUE, len |-> timers[i].len, args |-> timers[i].args]
  /\ sinceRun' = 0
  /\ Render(visibleItems', isLoading,
            IF timers[i].cur THEN [thr EXCEPT !.previous = now] ELSE thr,
            RemoveAt(timers, i))
  /\ UNCHANGED <<phase, backgroundImages, currentBgIndex, isLoading, scrollY, winScrollY,
                 innerHeight, docHeight, now, scrollListener, retriggered, scrolls, loadLen>>

\* the effect cleanups of lines 83, 147-149 and 171
Unmount ==
  /\ phase = "mounted"
  /\ phase' = "unmounted"
  /\ observer' = [observer EXCEPT !.connected = FALSE]
  /\ scrollListener' = FALSE
  /\ thr' = [thr EXCEPT !.subscribed = FALSE]
  /\ timers' = Orphan(timers)
  /\ trimCall' = NoCall
  /\ UNCHANGED <<backgroundImages, visibleItems, currentBgIndex, isLoading, scrollY,
                 winScrollY, innerHeight, docHeight, now, sinceRun, retriggered, scrolls, loadLen>>

\* time passes; due timers run before the clock moves on
Tick ==
  /\ now + TimeStep <= MaxTime
  /\ \A i \in DOMAIN timers : timers[i].due > now
  /\ now' = now + TimeStep
  /\ sinceRun' = Min(sinceRun + TimeStep, ThrottleWait)
  /\ trimCall' = NoCall
  /\ UNCHANGED <<phase, backgroundImages, visibleItems, currentBgIndex, isLoading, scrollY,
                 winScrollY, innerHeight, docHeight, observer, scrollListener, thr, timers,
                 retriggered, scrolls, loadLen>>

Next ==
  \/ Mount
  \/ \E y \in ScrollPositions : Scroll(y)
  \/ SentinelTrigger
  \/ \E i \in DOMAIN timers : LoadTimerFire(i)
  \/ \E i \in DOMAIN timers : TrimTimerFire(i)
  \/ Unmount
  \/ Tick

Spec == Init /\ [][Next]_vars

\* the same component under scroll events at one offset (a trim drops 4)
NextLive ==
  \/ Mount
  \/ \E y \in LiveScrollPositions : Scroll(y)
  \/ SentinelTrigger
  \/ \E i \in DOMAIN timers : LoadTimerFire(i)
  \/ \E i \in DOMAIN timers : TrimTimerFire(i)
  \/ Unmount
  \/ Tick

\* the host runs every timer whose delay has elapsed, and time passes
FairSpec ==
  /\ Init /\ [][NextLive]_vars
  /\ WF_vars(Tick)
  /\ WF_vars(\E i \in DOMAIN timers : LoadTimerFire(i))
  /\ WF_vars(\E i \in DOMAIN timers : TrimTimerFire(i))

-----------------------------------------------------------------------------
(* The scroll tracker and the background selector alone: the same component  *)
(* with any background list, under scroll events and layout changes only     *)

InitBg ==
  /\ phase = "init"
  /\ backgroundImages \in {Take(BgPool, n) : n \in 0..MaxBackgrounds}
  /\ visibleItems = << >>
  /\ currentBgIndex = 0
  /\ isLoading = FALSE
  /\ scrollY = 0
  /\ winScrollY = 0
  /\ innerHeight \in BgViewportHeights
  /\ docHeight \in BgDocHeights
  /\ now = StartTime
  /\ observer = [connected |-> FALSE, isLoading |-> FALSE]
  /\ scrollListener = FALSE
  /\ thr = [subscribed |-> FALSE, len |-> 0, previous |-> 0]
  /\ timers = << >>
  /\ trimCall = NoCall
  /\ sinceRun = ThrottleWait
  /\ retriggered = FALSE
  /\ scrolls = 0
  /\ loadLen = NoLoad

NextBg ==
  \/ Mount
  \/ \E y \in BgScrollPositions : Scroll(y)
  \/ \E vh \in BgViewportHeights, dh \in BgDocHeights : Layout(vh, dh)

SpecBg == InitBg /\ [][NextBg]_vars

-----------------------------------------------------------------------------
(* Properties *)

LoadTimers == {i \in DOMAIN timers : timers[i].kind = "load"}
TrimTimers == {i \in DOMAIN timers : timers[i].kind = "trim"}
ScrollHeight == docHeight - innerHeight
Ids(items) == [i \in DOMAIN items |-> items[i].id]

\* C1: no two entries of visibleItems have the same id, in every reachable state
\* (stated as claimed; the code violates it after a trim followed by a batch)
C1_UniqueIds ==
  \A i, j \in DOMAIN visibleItems :
    i # j => visibleItems[i].id # visibleItems[j].id

\* C2: at most one pagination timer is pending; a sentinel trigger during a
\* pending load starts no timer and changes no state, and the load that was
\* re-triggered appends exactly one batch of 3 entries when it completes
C2_SingleBatchPending ==
  /\ [](Cardinality(LoadTimers) <= 1)
  /\ [](retriggered => Cardinality(LoadTimers) = 1 /\ isLoading)
  /\ [][~retriggered /\ retriggered' =>
          /\ timers' = timers
          /\ viewState' = viewState
          /\ observer' = observer /\ thr' = thr]_vars
  /\ [][retriggered /\ ~retriggered' =>
          /\ Len(visibleItems') = Len(visibleItems) + itemsPerLoad
          /\ LoadTimers' = {}]_vars

\* C2 witness: the sentinel triggered again while the one batch is pending
C2_Witness ==
  /\ phase = "mounted"
  /\ retriggered
  /\ isLoading
  /\ Cardinality(LoadTimers) = 1

\* C3: any two executions of the trim handler are at least ThrottleWait apart
\* (stated as claimed; the code violates it after a re-subscription)
C3_TrimCooldown ==
  [][phase = "mounted" /\ trimCall'.ran => sinceRun >= ThrottleWait]_vars

\* C4: after the unmount no view state changes
\* (stated as claimed; the pagination timer of the code still runs its updates)
C4_NoUpdateAfterUnmount ==
  [][phase = "unmounted" => viewState' = viewState]_vars

\* C5: once unmounted, the observer is disconnected, both scroll listeners are
\* removed and no timer is pending (stated as claimed; the code clears no timer)
C5_UnmountReleasesAll ==
  phase = "unmounted" =>
    /\ ~observer.connected
    /\ ~scrollListener
    /\ ~thr.subscribed
    /\ timers = << >>

\* C6: with a non-empty background list of N entries, currentBgIndex is in
\* 0..N-1 in every reachable state, whatever offsets and heights were observed
C6_BgIndexValid ==
  Len(backgroundImages) > 0 => currentBgIndex \in 0..(Len(backgroundImages) - 1)

\* C6 witness: an offset beyond the scrollable height was observed and the
\* selector sits on the last of several backgrounds
C6_Witness ==
  /\ phase = "mounted"
  /\ ScrollHeight > 0
  /\ scrollY > ScrollHeight
  /\ Len(backgroundImages) >= 2
  /\ currentBgIndex = Len(backgroundImages) - 1

\* C7: for H > 0 and N >= 1, the index the selector computes is non-decreasing
\* in the offset over 0..H and lies in 0..N-1
C7_BgIndexMonotone ==
  LET H == ScrollHeight
      N == Len(backgroundImages)
  IN  (H > 0 /\ N >= 1) =>
        \A s1, s2 \in 0..H :
          /\ BgEffect(currentBgIndex, s1, H, N) \in 0..(N - 1)
          /\ s1 <= s2 =>
               BgEffect(currentBgIndex, s1, H, N) <= BgEffect(currentBgIndex, s2, H, N)

\* C7 witness: a scroll inside 0..H moved the selector off the first background
C7_Witness ==
  /\ phase = "mounted"
  /\ ScrollHeight > 0
  /\ scrollY \in 1..(ScrollHeight - 1)
  /\ currentBgIndex >= 1
  /\ currentBgIndex < Len(backgroundImages) - 1

\* C8: while H <= 0 or the background list is empty, no step changes
\* currentBgIndex, whatever offset is observed
C8_NoHeightNoChange ==
  [][(ScrollHeight <= 0 \/ Len(backgroundImages) = 0) =>
       currentBgIndex' = currentBgIndex]_vars

\* C8 witness: the offset went back to 0 on a document that cannot scroll and
\* the selector kept the non-zero index it had
C8_Witness ==
  /\ phase = "mounted"
  /\ ScrollHeight <= 0
  /\ scrolls >= 2
  /\ scrollY = 0
  /\ currentBgIndex > 0

\* C9: a completed batch on a list of length L keeps the L entries and appends
\* copies of galleryItems[(L+i) mod 3] with id <source id>-<L+i>, i = 0,1,2;
\* from the initial list the ids become 1, 2, 3, 1-3, 2-4, 3-5
C9_BatchAppend ==
  [][isLoading /\ ~isLoading' =>
       LET L == Len(visibleItems)
       IN  /\ Len(visibleItems') = L + 3
           /\ SubSeq(visibleItems', 1, L) = visibleItems
           /\ \A i \in 0..2 :
                LET src == galleryItems[((L + i) % Len(galleryItems)) + 1]
                IN  /\ visibleItems'[L + i + 1].title = src.title
                    /\ visibleItems'[L + i + 1].id = src.id \o "-" \o ToString(L + i)
           /\ visibleItems = Take(galleryItems, InitialCount) =>
                Ids(visibleItems') = << "1", "2", "3", "1-3", "2-4", "3-5" >>]_vars

\* C9 witness: the first batch has been appended to the initial list
C9_Witness ==
  /\ ~isLoading
  /\ Len(visibleItems) = 6
  /\ SubSeq(visibleItems, 1, 3) = Take(galleryItems, InitialCount)
  /\ visibleItems[4].id = "1-3"

C11_RecomputeIdempotent ==
  LET H == ScrollHeight
      N == Len(backgroundImages)
  IN  \A y \in BgScrollPositions \cup {scrollY} :
        LET c1 == BgEffectOnce(currentBgIndex, y, H, N)
        IN  /\ BgEffectOnce(c1, y, H, N) = c1
            /\ ~BgUpdates(c1, y, H, N)

\* C11 witness: a scroll beyond the scrollable height made the selector update
\* once, and recomputing in that state changes nothing
C11_Witness ==
  /\ phase = "mounted"
  /\ ScrollHeight > 0
  /\ scrollY > ScrollHeight
  /\ currentBgIndex > 0
  /\ BgEffectOnce(currentBgIndex, scrollY, ScrollHeight, Len(backgroundImages))
       = currentBgIndex

\* C18: for H > 0 and N >= 1 the selector computes 0 at offset 0 and N-1 at
\* offset H, whatever H is
C18_BgIndexEnds ==
  LET H == ScrollHeight
      N == Len(backgroundImages)
  IN  (H > 0 /\ N >= 1) =>
        /\ BgEffect(currentBgIndex, 0, H, N) = 0
        /\ BgEffect(currentBgIndex, H, H, N) = N - 1

\* C18 witness: the view is scrolled exactly to the maximum offset and the
\* selector sits on the last of several backgrounds
C18_Witness ==
  /\ phase = "mounted"
  /\ ScrollHeight > 1
  /\ Len(backgroundImages) >= 2
  /\ scrollY = ScrollHeight
  /\ currentBgIndex = Len(backgroundImages) - 1

\* a trailing timer of the subscribed throttle closure fires in this step
CurrentTrailingFires ==
  /\ scrolls' = scrolls
  /\ trimCall'.ran
  /\ \E i \in DOMAIN timers : IsNextTimer(i) /\ timers[i].kind = "trim" /\ timers[i].cur

\* C12: at most one deferred (trailing) trim call is pending in the whole
\* component, mounted or not (stated as claimed; in the code the timers of
\* closures replaced by a re-subscription stay pending)
C12_OneDeferredTrim ==
  Cardinality(TrimTimers) <= 1

\* C13: the deferred invocation at the end of a cooldown window receives the
\* arguments of the most recent call made in the window (stated as claimed; the
\* code keeps the arguments of the first deferred call)
C13_TrailingLatestArgs ==
  [][CurrentTrailingFires => trimCall'.args = winScrollY]_vars

\* C14: every call of the trim handler leaves visibleItems equal to a suffix
\* of its previous value: order and fields kept, nothing removed elsewhere
C14_TrimKeepsSuffix ==
  [][trimCall'.ran =>
       \E k \in 0..Len(visibleItems) :
         visibleItems' = SubSeq(visibleItems, k + 1, Len(visibleItems))]_vars

\* C14 witness: a trim pass removed a proper, non-empty prefix of a list that
\* pagination had grown
C14_Witness ==
  /\ trimCall.ran
  /\ trimCall.len > TrimThreshold
  /\ Len(visibleItems) \in 1..(trimCall.len - 1)
  /\ visibleItems[Len(visibleItems)].id = "3-20"

\* C15: the trim handler never shortens a list whose current length is at
\* most 20 (stated as claimed; a deferred call of a replaced closure still
\* sees the length of its own render)
C15_TrimOnlyAboveThreshold ==
  [][trimCall'.ran /\ Len(visibleItems) <= TrimThreshold =>
       visibleItems' = visibleItems]_vars

\* C20: once mounted, visibleItems is never empty (stated as claimed; the code
\* bounds the number of dropped entries only from below)
C20_NeverEmpty ==
  phase # "init" => Len(visibleItems) > 0

\* the bounded clock of the model can still reach time d
ClockCanReach(d) ==
  \/ d <= now
  \/ \E n \in 1..MaxTime : now + n * TimeStep >= d /\ now + n * TimeStep <= MaxTime

\* C16: every load that is started while mounted ends (LoadingBatch -> Idle),
\* unless the view is unmounted first, and the step that clears isLoading is
\* the step that appends the 3 entries
C16_LoadCompletes ==
  /\ (phase = "mounted" /\ isLoading
        /\ \A i \in LoadTimers : ClockCanReach(timers[i].due))
       ~> (~isLoading \/ phase # "mounted")
  /\ [][isLoading /\ ~isLoading' =>
          /\ Len(visibleItems') = Len(visibleItems) + itemsPerLoad
          /\ SubSeq(visibleItems', 1, Len(visibleItems)) = visibleItems]_vars

\* C16 witness: a load started while mounted has completed and the view is
\* idle again with the batch appended
C16_Witness ==
  /\ phase = "mounted"
  /\ ~isLoading
  /\ loadLen.atFire >= 0
  /\ LoadTimers = {}
  /\ Len(visibleItems) = loadLen.atFire + itemsPerLoad

\* C17: a batch takes its source indices and id suffixes from the list length
\* at the moment the timer fires: if a trim shortened the list after the
\* trigger, the shortened length L' is used
C17_BatchUsesLengthAtFire ==
  [][isLoading /\ ~isLoading' =>
       LET L == Len(visibleItems)
       IN  /\ loadLen'.atFire = L
           /\ L < loadLen.atTrigger =>
                \A i \in 0..(itemsPerLoad - 1) :
                  LET src == galleryItems[((L + i) % Len(galleryItems)) + 1]
                  IN  visibleItems'[L + i + 1] =
                        [src EXCEPT !.id = src.id \o "-" \o ToString(L + i)]]_vars

\* C17 witness: a trim shortened the list between trigger and timer, and the
\* batch carries the suffixes of the shortened length
C17_Witness ==
  /\ ~isLoading
  /\ loadLen.atFire >= 0
  /\ loadLen.atFire < loadLen.atTrigger
  /\ Len(visibleItems) = loadLen.atFire + itemsPerLoad
  /\ visibleItems[Len(visibleItems)].id =
       galleryItems[((loadLen.atFire + 2) % Len(galleryItems)) + 1].id
         \o "-" \o ToString(loadLen.atFire + 2)

\* C19: while mounted, isLoading holds exactly when a pagination timer is
\* pending; it is set in the step that schedules the timer and cleared only in
\* the step in which the timer fires and appends its batch
C19_LoadingIffTimer ==
  /\ [](phase = "mounted" => (isLoading <=> LoadTimers # {}))
  /\ [][phase = "mounted" /\ ~isLoading /\ isLoading' =>
          Cardinality(LoadTimers') = Cardinality(LoadTimers) + 1]_vars
  /\ [][phase = "mounted" /\ isLoading /\ ~isLoading' =>
          /\ Cardinality(LoadTimers') = Cardinality(LoadTimers) - 1
          /\ Len(visibleItems') = Len(visibleItems) + itemsPerLoad]_vars

\* C19 witness: after a completed load, a second load is pending
C19_Witness ==
  /\ phase = "mounted"
  /\ isLoading
  /\ Cardinality(LoadTimers) = 1
  /\ loadLen.atTrigger >= 6

====
